---- MODULE Spec2Model ----
(***************************************************************************)
(* Model of cookiedl.py: main() reads the links file, probes the cookies   *)
(* with one wget --spider call, asks for confirmation and then runs one    *)
(* download_link call per link on a ThreadPoolExecutor.                    *)
(*                                                                         *)
(* Text (file lines, links, prompt answers, file names) is a sequence of   *)
(* one-character strings; the scheme and host of a link are the single     *)
(* token "http://h".  Environment assumption: every input() call receives  *)
(* a line (standard input is not at end-of-file), and wget can be started  *)
(* by the probe.                                                           *)
(***************************************************************************)
EXTENDS Integers, Sequences, FiniteSets, TLC

VARIABLES pc, exitCode, linksExists, linksFile, links, force_download,
          force_download_ask, fs, fs0, probe, proceed, download_now,
          futures, queue, collected

vars == <<pc, exitCode, linksExists, linksFile, links, force_download,
          force_download_ask, fs, fs0, probe, proceed, download_now,
          futures, queue, collected>>

(* ------------------------------ bounds --------------------------------- *)

\* Longest links file (in lines) and longest pasted list of links.
MaxLines == 2

\* Worker threads of the pool (the platform-derived max_workers).
MaxWorkers == 2

(* ------------------------------- text ---------------------------------- *)

SchemeHost == "http://h"

\* Lines a links file or the links prompt may hold.
LineSet ==
  { <<>>,
    <<" ">>,
    <<SchemeHost, "/">>,
    <<" ", SchemeHost, "/", "x", "/", "?", "q", " ">>,
    <<SchemeHost, "/", "b", "%", "2", "0", "c">> }

\* Lines typed at a y/n prompt.
Answers == { <<"y">>, <<" ", "Y", " ">>, <<"n">>, <<>> }

RECURSIVE lstrip(_)
lstrip(s) == IF s # <<>> /\ Head(s) = " " THEN lstrip(Tail(s)) ELSE s

RECURSIVE rstrip(_)
rstrip(s) ==
  IF s # <<>> /\ s[Len(s)] = " " THEN rstrip(SubSeq(s, 1, Len(s) - 1)) ELSE s

\* str.strip()
strip(s) == rstrip(lstrip(s))

\* str.lower()
lower(s) ==
  [k \in 1..Len(s) |->
     IF s[k] = "Y" THEN "y" ELSE IF s[k] = "N" THEN "n" ELSE s[k]]

\* urlparse(link).path: the link without scheme and host, up to the first
\* "?" or "#".
RECURSIVE untilQuery(_)
untilQuery(s) ==
  IF s = <<>> \/ Head(s) \in {"?", "#"} THEN <<>>
  ELSE <<Head(s)>> \o untilQuery(Tail(s))

urlparse_path(link) ==
  untilQuery(IF link # <<>> /\ Head(link) = SchemeHost THEN Tail(link) ELSE link)

\* os.path.basename: what follows the last "/".
RECURSIVE basename(_)
basename(p) ==
  IF \E k \in 1..Len(p) : p[k] = "/" THEN basename(Tail(p)) ELSE p

\* urllib.parse.unquote, for the escape %20.
RECURSIVE unquote(_)
unquote(s) ==
  IF s = <<>> THEN <<>>
  ELSE IF Len(s) >= 3 /\ s[1] = "%" /\ s[2] = "2" /\ s[3] = "0"
       THEN <<" ">> \o unquote(SubSeq(s, 4, Len(s)))
       ELSE <<Head(s)>> \o unquote(Tail(s))

\* The file name download_link falls back to.
FallbackName == <<"downloaded_file">>

\* download_link, lines 42-47: the destination file of a link (the name
\* below dl_path).
output_file(link) ==
  LET output_filename == unquote(basename(urlparse_path(link)))
  IN  IF output_filename = <<>> THEN FallbackName ELSE output_filename

\* Every destination a line of LineSet can resolve to.
AllFiles == { output_file(strip(l)) : l \in { m \in LineSet : strip(m) # <<>> } }

\* All sequences over S of length at most n.
RECURSIVE SeqsUpTo(_, _)
SeqsUpTo(S, n) ==
  IF n = 0 THEN { <<>> }
  ELSE LET shorter == SeqsUpTo(S, n - 1)
       IN  shorter \cup { Append(s, x) : s \in { t \in shorter : Len(t) = n - 1 }, x \in S }

\* read_links testing the raw line ("if line") instead of the stripped one.
RECURSIVE read_links_raw_test(_)
read_links_raw_test(file) ==
  IF file = <<>> THEN <<>>
  ELSE IF Head(file) # <<>>
       THEN <<strip(Head(file))>> \o read_links_raw_test(Tail(file))
       ELSE read_links_raw_test(Tail(file))

\* main, lines 166-167: [line.strip() for line in f if line.strip()]
RECURSIVE read_links(_)
read_links(file) ==
  IF file = <<>> THEN <<>>
  ELSE IF strip(Head(file)) # <<>>
       THEN <<strip(Head(file))>> \o read_links(Tail(file))
       ELSE read_links(Tail(file))

\* input(...).strip().lower() == "y"
said_yes(ans) == lower(strip(ans)) = <<"y">>

(* ------------------------------- state --------------------------------- *)

\* A future of the pool together with the progress of its download_link call.
NewTask(link) ==
  [ link      |-> link,
    state     |-> "Pending",
    existed   |-> "unchecked",
    answer    |-> "unasked",
    transfer  |-> "none",
    runs      |-> 0,
    transfers |-> 0,
    outcomes  |-> 0,
    outcome   |-> "None" ]

Init ==
  /\ linksExists \in BOOLEAN
  /\ linksFile \in (IF linksExists THEN SeqsUpTo(LineSet, MaxLines) ELSE { <<>> })
  /\ pc = (IF linksExists THEN "read" ELSE "promptLinks")
  /\ exitCode = 0
  /\ links = <<>>
  /\ force_download \in BOOLEAN
  /\ force_download_ask \in BOOLEAN
  /\ fs0 \in SUBSET AllFiles
  /\ fs = fs0
  /\ probe = "pending"
  /\ proceed = "unasked"
  /\ download_now = "unasked"
  /\ futures = <<>>
  /\ queue = <<>>
  /\ collected = {}

(* ------------------------------- main ---------------------------------- *)

\* main, lines 150-161: the links file is missing; links are read from the
\* prompt until a blank line and written one per line.
PromptLinks(line) ==
  /\ pc = "promptLinks"
  /\ IF strip(line) = <<>>
     THEN /\ linksExists' = TRUE
          /\ pc' = "read"
          /\ UNCHANGED linksFile
     ELSE /\ Len(linksFile) < MaxLines
          /\ linksFile' = Append(linksFile, strip(line))
          /\ UNCHANGED <<pc, linksExists>>
  /\ UNCHANGED <<exitCode, links, force_download, force_download_ask, fs, fs0,
                 probe, proceed, download_now, futures, queue, collected>>

\* main, lines 165-171: read the links; exit 1 when there is none.
ReadLinks ==
  /\ pc = "read"
  /\ links' = read_links(linksFile)
  /\ IF links' = <<>>
     THEN pc' = "exit" /\ exitCode' = 1
     ELSE pc' = "probe" /\ UNCHANGED exitCode
  /\ UNCHANGED <<linksExists, linksFile, force_download, force_download_ask,
                 fs, fs0, probe, proceed, download_now, futures, queue,
                 collected>>

\* test_cookies and main, line 174: wget --spider on links[0]; returncode 0
\* or not.
TestCookies(ok) ==
  /\ pc = "probe"
  /\ probe' = (IF ok THEN "passed" ELSE "failed")
  /\ pc' = (IF ok THEN "askDownload" ELSE "askContinue")
  /\ UNCHANGED <<exitCode, linksExists, linksFile, links, force_download,
                 force_download_ask, fs, fs0, proceed, download_now, futures,
                 queue, collected>>

\* AskContinue without the sys.exit(1) of line 178.
AskContinue_no_exit(ans) ==
  /\ pc = "askContinue"
  /\ proceed' = (IF said_yes(ans) THEN "yes" ELSE "no")
  /\ pc' = "askDownload"
  /\ UNCHANGED <<exitCode, linksExists, linksFile, links, force_download,
                 force_download_ask, fs, fs0, probe, download_now, futures,
                 queue, collected>>

\* main, lines 175-178: the probe failed; continue only on "y".
AskContinue(ans) ==
  /\ pc = "askContinue"
  /\ proceed' = (IF said_yes(ans) THEN "yes" ELSE "no")
  /\ IF said_yes(ans)
     THEN pc' = "askDownload" /\ UNCHANGED exitCode
     ELSE pc' = "exit" /\ exitCode' = 1
  /\ UNCHANGED <<linksExists, linksFile, links, force_download,
                 force_download_ask, fs, fs0, probe, download_now, futures,
                 queue, collected>>

\* AskDownload that enters the pool whatever the answer.
AskDownload_always(ans) ==
  /\ pc = "askDownload"
  /\ download_now' = (IF said_yes(ans) THEN "yes" ELSE "no")
  /\ pc' = "submit"
  /\ UNCHANGED <<exitCode, linksExists, linksFile, links, force_download,
                 force_download_ask, fs, fs0, probe, proceed, futures, queue,
                 collected>>

\* main, lines 180-181 and 193-194: the final confirmation.
AskDownload(ans) ==
  /\ pc = "askDownload"
  /\ download_now' = (IF said_yes(ans) THEN "yes" ELSE "no")
  /\ pc' = (IF said_yes(ans) THEN "submit" ELSE "exit")
  /\ UNCHANGED <<exitCode, linksExists, linksFile, links, force_download,
                 force_download_ask, fs, fs0, probe, proceed, futures, queue,
                 collected>>

\* Submit that leaves out the last link of the list.
Submit_drops_last ==
  /\ pc = "submit"
  /\ Len(futures) < Len(links)
  /\ futures' = Append(futures, NewTask(links[Len(futures) + 1]))
  /\ queue' = Append(queue, Len(futures) + 1)
  /\ pc' = (IF Len(futures') >= Len(links) - 1 THEN "collect" ELSE "submit")
  /\ UNCHANGED <<exitCode, linksExists, linksFile, links, force_download,
                 force_download_ask, fs, fs0, probe, proceed, download_now,
                 collected>>

\* main, lines 183-186: executor.submit for the next link; the future joins
\* the pool's work queue.
Submit ==
  /\ pc = "submit"
  /\ Len(futures) < Len(links)
  /\ futures' = Append(futures, NewTask(links[Len(futures) + 1]))
  /\ queue' = Append(queue, Len(futures) + 1)
  /\ pc' = (IF Len(futures') = Len(links) THEN "collect" ELSE "submit")
  /\ UNCHANGED <<exitCode, linksExists, linksFile, links, force_download,
                 force_download_ask, fs, fs0, probe, proceed, download_now,
                 collected>>

(* ---------------------------- the pool --------------------------------- *)

\* Worker threads that are inside a download_link call.
Busy ==
  Cardinality({ i \in 1..Len(futures) :
                  futures[i].state \in {"Asking", "Downloading"} })

\* existence_branch with the default branch downloading again.
existence_branch_default_proceeds(fda, fd) ==
  IF fda THEN "ask" ELSE "proceed"

\* existence_branch that ignores --force-download.
existence_branch_force_ignored(fda, fd) ==
  IF fda THEN "ask" ELSE "skip"

\* existence_branch that tests --force-download first.
existence_branch_force_first(fda, fd) ==
  IF fd THEN "proceed" ELSE IF fda THEN "ask" ELSE "skip"

\* download_link, lines 50-60: the branch taken when output_file exists.
existence_branch(fda, fd) ==
  IF fda THEN "ask" ELSE IF fd THEN "proceed" ELSE "skip"

\* download_link, line 53: the answer to "Download again?".
answer_branch(ans) == IF said_yes(ans) THEN "proceed" ELSE "skip"

\* skip that reports the skipped link as an error.
skip_as_error(t) ==
  [t EXCEPT !.state = "Failed", !.outcome = "Failed", !.outcomes = @ + 1]

\* download_link, lines 54-55 and 59-60: log "Skipping ..." and return.
skip(t) ==
  [t EXCEPT !.state = "Skipped", !.outcome = "Skipped", !.outcomes = @ + 1]

\* download_link, lines 62-64: log "Downloading ..." and launch wget.
start_transfer(t) ==
  [t EXCEPT !.state = "Downloading", !.transfers = @ + 1]

\* download_link, lines 63-70: what becomes of the call when subprocess.run
\* returns 0 ("ok"), returns non-zero ("nonzero", CalledProcessError is
\* caught and logged) or raises another exception ("oserror", which leaves
\* download_link and is stored in the future).
transfer_outcome(res) ==
  IF res = "ok" THEN "Downloaded"
  ELSE IF res = "nonzero" THEN "Failed"
  ELSE "Raised"

TransferResults == {"ok", "nonzero", "oserror"}

\* A worker thread takes the next future from the work queue and runs
\* download_link up to the prompt, the skip or the launch of wget
\* (lines 42-62).
Start(i) ==
  /\ pc \in {"submit", "collect"}
  /\ queue # <<>>
  /\ i = Head(queue)
  /\ Busy < MaxWorkers
  /\ queue' = Tail(queue)
  /\ LET t      == [futures[i] EXCEPT !.runs = @ + 1]
         exists == output_file(t.link) \in fs
         branch == IF exists
                   THEN existence_branch(force_download_ask, force_download)
                   ELSE "proceed"
         u      == [t EXCEPT !.existed = IF exists THEN "yes" ELSE "no"]
     IN  futures' =
           [futures EXCEPT ![i] =
              IF branch = "ask" THEN [u EXCEPT !.state = "Asking"]
              ELSE IF branch = "skip" THEN skip(u)
              ELSE start_transfer(u)]
  /\ UNCHANGED <<pc, exitCode, linksExists, linksFile, links, force_download,
                 force_download_ask, fs, fs0, probe, proceed, download_now,
                 collected>>

\* download_link, lines 52-55: the user answers the prompt of task i.
Answer(i, ans) ==
  /\ i \in 1..Len(futures)
  /\ futures[i].state = "Asking"
  /\ LET t == [futures[i] EXCEPT
                 !.answer = IF said_yes(ans) THEN "y" ELSE "other"]
     IN  futures' =
           [futures EXCEPT ![i] =
              IF answer_branch(ans) = "skip" THEN skip(t)
              ELSE start_transfer(t)]
  /\ UNCHANGED <<pc, exitCode, linksExists, linksFile, links, force_download,
                 force_download_ask, fs, fs0, probe, proceed, download_now,
                 queue, collected>>

\* wget -O output_file (line 65) creates the destination while the transfer
\* of task i is under way.
WgetCreatesFile(i) ==
  /\ i \in 1..Len(futures)
  /\ futures[i].state = "Downloading"
  /\ output_file(futures[i].link) \notin fs
  /\ fs' = fs \cup { output_file(futures[i].link) }
  /\ UNCHANGED <<pc, exitCode, linksExists, linksFile, links, force_download,
                 force_download_ask, fs0, probe, proceed, download_now,
                 futures, queue, collected>>

\* download_link, lines 63-70: subprocess.run of task i ends with res.
Transfer(i, res) ==
  /\ i \in 1..Len(futures)
  /\ futures[i].state = "Downloading"
  /\ LET t   == [futures[i] EXCEPT !.transfer = res]
         out == transfer_outcome(res)
     IN  futures' =
           [futures EXCEPT ![i] =
              IF out = "Raised" THEN [t EXCEPT !.state = "Raised"]
              ELSE [t EXCEPT !.state = out, !.outcome = out,
                             !.outcomes = @ + 1]]
  /\ fs' = (IF res = "ok" THEN fs \cup { output_file(futures[i].link) } ELSE fs)
  /\ UNCHANGED <<pc, exitCode, linksExists, linksFile, links, force_download,
                 force_download_ask, fs0, probe, proceed, download_now, queue,
                 collected>>

\* main, lines 187-192: as_completed yields the finished future i;
\* future.result() re-raises what download_link raised and main logs
\* "Error downloading ...".
Collect(i) ==
  /\ pc = "collect"
  /\ i \in 1..Len(futures)
  /\ i \notin collected
  /\ futures[i].state \in {"Skipped", "Downloaded", "Failed", "Raised"}
  /\ collected' = collected \cup {i}
  /\ futures' =
       [futures EXCEPT ![i] =
          IF @.state = "Raised"
          THEN [@ EXCEPT !.state = "Failed", !.outcome = "Failed",
                         !.outcomes = @ + 1]
          ELSE @]
  /\ UNCHANGED <<pc, exitCode, linksExists, linksFile, links, force_download,
                 force_download_ask, fs, fs0, probe, proceed, download_now,
                 queue>>

\* Finish that exits 1 when a download failed.
Finish_exit_on_failure ==
  /\ pc = "collect"
  /\ collected = 1..Len(futures)
  /\ pc' = "exit"
  /\ exitCode' = (IF \E i \in 1..Len(futures) : futures[i].state = "Failed"
                  THEN 1 ELSE 0)
  /\ UNCHANGED <<linksExists, linksFile, links, force_download,
                 force_download_ask, fs, fs0, probe, proceed, download_now,
                 futures, queue, collected>>

\* main, lines 182 and 187-192: every future has been handled, the with
\* block shuts the executor down and main returns.
Finish ==
  /\ pc = "collect"
  /\ collected = 1..Len(futures)
  /\ pc' = "exit"
  /\ UNCHANGED <<exitCode, linksExists, linksFile, links, force_download,
                 force_download_ask, fs, fs0, probe, proceed, download_now,
                 futures, queue, collected>>

Next ==
  \/ \E line \in LineSet : PromptLinks(line)
  \/ ReadLinks
  \/ \E ok \in BOOLEAN : TestCookies(ok)
  \/ \E ans \in Answers : AskContinue(ans)
  \/ \E ans \in Answers : AskDownload(ans)
  \/ Submit
  \/ \E i \in 1..MaxLines : Start(i)
  \/ \E i \in 1..MaxLines, ans \in Answers : Answer(i, ans)
  \/ \E i \in 1..MaxLines : WgetCreatesFile(i)
  \/ \E i \in 1..MaxLines, res \in TransferResults : Transfer(i, res)
  \/ \E i \in 1..MaxLines : Collect(i)
  \/ Finish

Spec == Init /\ [][Next]_vars

TypeOK ==
  /\ pc \in {"promptLinks", "read", "probe", "askContinue", "askDownload",
             "submit", "collect", "exit"}
  /\ exitCode \in {0, 1}
  /\ fs \subseteq AllFiles
  /\ Len(futures) <= Len(links)

(* ------------------------------ claims --------------------------------- *)

Tasks == 1..Len(futures)

Outcomes == {"Downloaded", "Skipped", "Failed"}

Finished(t) == t.state \in Outcomes

\* The download phase ran to its end.
PhaseDone == pc = "exit" /\ download_now = "yes"

\* C1: once the download phase has run over a non-empty link list, there is
\* one task per link, every task was executed once and yielded exactly one
\* outcome among Downloaded, Skipped and Failed; no task is ever executed
\* twice or yields two outcomes.
C1_OneOutcomePerTask ==
  /\ \A i \in Tasks :
       /\ futures[i].runs <= 1
       /\ futures[i].outcomes <= 1
       /\ (futures[i].outcomes = 1) <=> (futures[i].outcome \in Outcomes)
  /\ PhaseDone =>
       /\ Len(futures) = Len(links)
       /\ \A i \in Tasks :
            /\ futures[i].link = links[i]
            /\ futures[i].runs = 1
            /\ futures[i].outcomes = 1
            /\ futures[i].outcome \in Outcomes

C1_Witness ==
  /\ PhaseDone
  /\ Len(futures) >= 2
  /\ \E i \in Tasks : futures[i].outcome = "Failed"
  /\ \E i \in Tasks : futures[i].outcome = "Downloaded"

\* The outcome a task has when it depends only on its own link, the flags,
\* the existence of its destination at the start of the run, the answer to
\* its own prompt and the result of its own transfer.
ExpectedOutcome(t) ==
  LET existed0 == output_file(t.link) \in fs0
      decision == IF ~existed0 THEN "proceed"
                  ELSE IF force_download_ask
                       THEN (IF t.answer = "y" THEN "proceed" ELSE "skip")
                  ELSE IF force_download THEN "proceed"
                  ELSE "skip"
  IN  IF decision = "skip" THEN "Skipped"
      ELSE IF t.transfer = "ok" THEN "Downloaded"
      ELSE "Failed"

\* C2: the outcome of every finished task is the one determined by its own
\* link, the policy, the existence of its destination when the run started
\* and the result of its own transfer, also when two links share a
\* destination.
C2_OutcomeIndependent ==
  \A i \in Tasks :
    Finished(futures[i]) => futures[i].outcome = ExpectedOutcome(futures[i])

\* Every destination of the link list existed when the run started.
AllExisted0 ==
  /\ links # <<>>
  /\ \A k \in 1..Len(links) : output_file(links[k]) \in fs0

\* C3: with neither force flag set and every destination present at the
\* start, no task ever starts a transfer, and at the end of the download
\* phase every task is Skipped.
C3_AllSkippedNoTransfer ==
  (~force_download /\ ~force_download_ask /\ AllExisted0) =>
    /\ fs = fs0
    /\ \A i \in Tasks :
         /\ futures[i].transfers = 0
         /\ futures[i].state \in {"Pending", "Skipped"}
    /\ PhaseDone =>
         /\ Len(futures) = Len(links)
         /\ \A i \in Tasks : futures[i].outcome = "Skipped"

C3_Witness ==
  /\ ~force_download /\ ~force_download_ask /\ AllExisted0
  /\ PhaseDone
  /\ Len(futures) >= 2
  /\ \A i \in Tasks : futures[i].outcome = "Skipped"

\* C4 as stated: under force-overwrite every finished task whose destination
\* existed when the run started is Downloaded.
C4_ForceAlwaysDownloaded ==
  (force_download /\ ~force_download_ask) =>
    \A i \in Tasks :
      (Finished(futures[i]) /\ output_file(futures[i].link) \in fs0)
        => futures[i].outcome = "Downloaded"

\* C4 as amended: under force-overwrite a task whose destination existed
\* when the run started is never Skipped; it starts one transfer and ends
\* Downloaded when the transfer succeeds and Failed when it does not.
C4_ForceNeverSkipped ==
  (force_download /\ ~force_download_ask) =>
    \A i \in Tasks :
      (futures[i].state # "Pending" /\ output_file(futures[i].link) \in fs0)
        => /\ futures[i].state # "Skipped"
           /\ futures[i].transfers = 1
           /\ Finished(futures[i]) =>
                futures[i].outcome =
                  (IF futures[i].transfer = "ok" THEN "Downloaded" ELSE "Failed")

C4_Witness ==
  /\ force_download /\ ~force_download_ask
  /\ \E i \in Tasks :
       /\ output_file(futures[i].link) \in fs0
       /\ futures[i].outcome = "Downloaded"

\* C5: with both flags set, a task that found its destination is asked; the
\* answer "y" sends it to the transfer, any other answer makes it Skipped; a
\* task that did not find its destination goes to the transfer unasked.
C5_AskTakesPrecedence ==
  (force_download /\ force_download_ask) =>
    \A i \in Tasks :
      LET t == futures[i]
      IN  /\ t.existed = "yes" => (t.state = "Asking" \/ t.answer # "unasked")
          /\ t.answer = "y" => (t.transfers = 1 /\ t.state # "Skipped")
          /\ t.answer = "other" => (t.transfers = 0 /\ t.state = "Skipped")
          /\ t.existed = "no" =>
               (t.answer = "unasked" /\ t.state # "Asking" /\ t.transfers = 1)

C5_Witness ==
  /\ force_download /\ force_download_ask
  /\ \E i \in Tasks : futures[i].answer = "y" /\ futures[i].state = "Downloaded"
  /\ \E i \in Tasks : futures[i].answer = "other"

\* No line of the links file holds a link once trimmed.
NoLink == \A k \in 1..Len(linksFile) : strip(linksFile[k]) = <<>>

\* C6: when the links file holds no link after trimming and blank-line
\* removal, the program has exited with code 1 as soon as the file is read,
\* without probe, task or transfer.
C6_EmptyLinksExit ==
  (pc \notin {"promptLinks", "read"} /\ NoLink) =>
    /\ pc = "exit"
    /\ exitCode = 1
    /\ probe = "pending"
    /\ futures = <<>>
    /\ queue = <<>>
    /\ fs = fs0

C6_Witness ==
  /\ pc = "exit"
  /\ NoLink
  /\ linksFile # <<>>
  /\ \E k \in 1..Len(linksFile) : linksFile[k] # <<>>

\* C7: after a failed probe that the user declined to pass over, the program
\* has exited with code 1 and no task was scheduled; and whenever a task is
\* scheduled the probe has completed.
C7_DeclineBeforeSchedule ==
  /\ (probe = "failed" /\ proceed = "no") =>
       (pc = "exit" /\ exitCode = 1 /\ futures = <<>> /\ queue = <<>>)
  /\ futures # <<>> => probe # "pending"

C7_Witness == probe = "failed" /\ proceed = "no" /\ pc = "exit"

\* The user declined to continue after a failed probe.
Declined == probe = "failed" /\ proceed = "no"

Phase(t) ==
  IF t.state \in {"Pending", "Asking"} THEN "Pending"
  ELSE IF t.state \in {"Downloading", "Raised"} THEN "Downloading"
  ELSE t.state

PhaseSteps ==
  { <<"Pending", "Pending">>, <<"Pending", "Skipped">>,
    <<"Pending", "Downloading">>, <<"Downloading", "Downloading">>,
    <<"Downloading", "Downloaded">>, <<"Downloading", "Failed">>,
    <<"Skipped", "Skipped">>, <<"Downloaded", "Downloaded">>,
    <<"Failed", "Failed">> }

C10_ConfirmationGate ==
  /\ download_now = "no" =>
       (pc = "exit" /\ exitCode = 0 /\ futures = <<>> /\ queue = <<>> /\ fs = fs0)
  /\ futures # <<>> => download_now = "yes"

C10_Witness ==
  /\ download_now = "no"
  /\ probe = "passed"
  /\ links # <<>>
  /\ pc = "exit"

====
